---- MODULE Spec2Model ----
(***************************************************************************)
(* Model of src/app/page.tsx: the Pokedex page component.                  *)
(*                                                                         *)
(*   Spec       the pagination loop of Component: fetchPokemon, the        *)
(*              useEffect that runs it, the render and the scroll sentinel *)
(*              (lastPokemonElementRef / IntersectionObserver).            *)
(*   SpecMerge  the setPokemonData updater as a pure function.             *)
(*   SpecCard   PokemonCard.handleMoveClick and its timers.                *)
(*   SpecModal  handleTypeClick / fetchTypeDetails / TypeModal.            *)
(*                                                                         *)
(* React state is modelled as React keeps it: the hook state (the value    *)
(* the next render will see) and the committed render (the DOM and the     *)
(* closures the mounted callbacks captured) are separate, and a render     *)
(* commit is a step of its own.                                            *)
(***************************************************************************)
EXTENDS Integers, Sequences, FiniteSets

VARIABLES
    \* ---- Component: hook state (page.tsx 217-223)
    pokemonData,    \* useState<Pokemon[]>([])
    loading,        \* useState(false)
    error,          \* useState<string | null>(null)
    hasMore,        \* useState(true)
    page,           \* useState(1)
    observer,       \* useRef<IntersectionObserver | null>: what it observes and the hasMore its callback closed over
    \* ---- Component: committed render
    view,           \* what the last committed render returned
    rLoading,       \* loading as closed over by the committed lastPokemonElementRef
    rHasMore,       \* hasMore as closed over by the committed lastPokemonElementRef
    rPage,          \* page as closed over by the committed fetchPokemon
    effectPending,  \* the useEffect on [fetchPokemon] is scheduled and has not run
    inflight,       \* calls of fetchPokemon that have not settled
    lastEvent,      \* history: the last step taken and what the API delivered in it
    \* ---- setPokemonData updater applied as a function
    mPc, mStore, mIncoming, mOnce, mTwice,
    \* ---- PokemonCard
    activeEffect,   \* useState<ShaderPreset | null>(null)
    timers,         \* pending setTimeout callbacks
    nextTimer,      \* id the next setTimeout returns
    now,            \* the clock
    lastClick,      \* history: the latest handleMoveClick
    \* ---- type modal
    selectedType,   \* useState<Type | null>(null)
    typeRequests    \* handleTypeClick calls awaiting fetchTypeDetails

pageVars  == <<pokemonData, loading, error, hasMore, page, observer, view,
               rLoading, rHasMore, rPage, effectPending, inflight, lastEvent>>
mergeVars == <<mPc, mStore, mIncoming, mOnce, mTwice>>
cardVars  == <<activeEffect, timers, nextTimer, now, lastClick>>
modalVars == <<selectedType, typeRequests>>
vars      == <<pageVars, mergeVars, cardVars, modalVars>>

\* What a step of one part leaves alone
pageOnly  == <<mergeVars, cardVars, modalVars>>
mergeOnly == <<pageVars, cardVars, modalVars>>
cardOnly  == <<pageVars, mergeVars, modalVars>>
modalOnly == <<pageVars, mergeVars, cardVars>>

----------------------------------------------------------------------------
\* Bounds of the model

MaxId      == 2     \* ids the API hands out are 1..MaxId
MaxPageLen == 2     \* summary items in one page of the API
MaxPage    == 3     \* the page cursor stops advancing here

\* The part of a Pokemon other than its id (name, types, moves, sprites).
PokemonNames == {"bulbasaur", "ditto"}

Pokemon == [id : 1..MaxId, name : PokemonNames]

NoError == "null"
FetchError == "Failed to fetch Pokemon data. Please try again later."

----------------------------------------------------------------------------
\* fetchPokemon: the setPokemonData updater (page.tsx 271-278)

limit == 20

\* Map.prototype.set while building new Map(entries): a key already present
\* keeps its position and takes the new value, a new key is appended.
MapSetAppendOnly(m, k, v) == Append(m, [key |-> k, value |-> v])

MapSet(m, k, v) ==
    IF \E i \in 1..Len(m) : m[i].key = k
    THEN [i \in 1..Len(m) |-> IF m[i].key = k THEN [key |-> k, value |-> v] ELSE m[i]]
    ELSE Append(m, [key |-> k, value |-> v])

RECURSIVE MapFrom(_, _)
\* new Map(newData.map((item) => [item.id, item])), entries set left to right
MapFrom(m, items) ==
    IF items = <<>> THEN m
    ELSE MapFrom(MapSet(m, Head(items).id, Head(items)), Tail(items))

\* Array.from(map.values())
MapValues(m) == [i \in 1..Len(m) |-> m[i].value]

RECURSIVE InsertById(_, _)
InsertById(sorted, x) ==
    IF sorted = <<>> THEN <<x>>
    ELSE IF x.id - Head(sorted).id < 0 THEN <<x>> \o sorted
    ELSE <<Head(sorted)>> \o InsertById(Tail(sorted), x)

RECURSIVE SortFrom(_, _)
SortFrom(sorted, items) ==
    IF items = <<>> THEN sorted
    ELSE SortFrom(InsertById(sorted, Head(items)), Tail(items))

SortOmitted(items) == items

\* uniqueData.sort((a, b) => a.id - b.id): a stable sort
SortById(items) == SortFrom(<<>>, items)

MergeConcat(prevData, pokemonDetails) == prevData \o pokemonDetails

Merge(prevData, pokemonDetails) ==
    LET newData    == prevData \o pokemonDetails
        uniqueData == MapValues(MapFrom(<<>>, newData))
    IN  SortById(uniqueData)

----------------------------------------------------------------------------
\* fetchPokemon: what the API delivers and how the call settles (page.tsx 226-284)

Rejected == [id |-> 0, name |-> "rejected"]

\* One summary item resolves to its Pokemon, or its detail request or one of
\* its (at most three) move requests rejects.
ItemOutcomes == Pokemon \cup {Rejected}

SeqsUpTo(S, n) == UNION {[1..k -> S] : k \in 0..n}

\* What one page of the API resolves to, item by item, in summary order.
PageOutcomes == SeqsUpTo(ItemOutcomes, MaxPageLen)

Ids(items) == {items[i].id : i \in 1..Len(items)}

AnyRejected(outcomes) == \E i \in 1..Len(outcomes) : outcomes[i] = Rejected

PromiseAllSettled(outcomes) == SelectSeq(outcomes, LAMBDA o : o # Rejected)

\* await Promise.all(data.results.map(async ...)): rejects when any item
\* rejects, otherwise the resolved items in order (page.tsx 239-270).
PromiseAll(outcomes) ==
    IF AnyRejected(outcomes)
    THEN <<Rejected>>
    ELSE outcomes

Request(p) == [page |-> p, offset |-> (p - 1) * limit]

----------------------------------------------------------------------------
\* Component: render (page.tsx 349-410)

CardKeys(data) == [i \in 1..Len(data) |-> data[i].id]

\* What Component returns: the full-screen loader, the full-screen error, or
\* the grid of cards with the "Loading more" line under it.
ComponentRender(l, e, data) ==
    IF l THEN [screen |-> "loading", cards |-> <<>>, more |-> FALSE]
    ELSE IF e # NoError THEN [screen |-> "error", cards |-> <<>>, more |-> FALSE]
    ELSE [screen |-> "grid", cards |-> CardKeys(data), more |-> l]

\* The card that carries ref={lastPokemonElementRef} (0: none)
LastCard(v) == IF v.cards = <<>> THEN 0 ELSE v.cards[Len(v.cards)]

NoObserver == [live |-> FALSE, target |-> 0, hasMore |-> FALSE]

\* lastPokemonElementRef as created by a render that saw (l, h), called with
\* node (0: null) (page.tsx 294-307)
RefCallback(l, h, node, obs) ==
    IF l THEN obs
    ELSE [live |-> TRUE, target |-> node, hasMore |-> h]

\* Every id of the page is held by out with the page's last entity of that id
IncomingKept(pokemonDetails, out) ==
    \A i \in 1..Len(pokemonDetails) :
        (\A j \in (i + 1)..Len(pokemonDetails) : pokemonDetails[j].id # pokemonDetails[i].id)
        => \E k \in 1..Len(out) : out[k] = pokemonDetails[i]

\* History of a step: what ran, and for a settled page what the API delivered
\* (an id repeated, ids out of order) and whether the store now holds the
\* page's entities.
Event(op) == [op |-> op, collided |-> FALSE, unsorted |-> FALSE, incomingKept |-> FALSE]

InitPage ==
    /\ pokemonData = <<>>
    /\ loading = FALSE
    /\ error = NoError
    /\ hasMore = TRUE
    /\ page = 1
    /\ observer = NoObserver
    /\ view = ComponentRender(FALSE, NoError, <<>>)
    /\ rLoading = FALSE
    /\ rHasMore = TRUE
    /\ rPage = 1
    /\ effectPending = TRUE
    /\ inflight = {}
    /\ lastEvent = Event("mount")

\* useEffect(() => { fetchPokemon(); }, [fetchPokemon]) runs fetchPokemon up to
\* its first await: setLoading(true) and the list request for the page the
\* callback closed over (page.tsx 226-233, 286-288)
RunEffect ==
    /\ effectPending
    /\ effectPending' = FALSE
    /\ loading' = TRUE
    /\ inflight' = inflight \cup {Request(rPage)}
    /\ lastEvent' = Event("effect")
    /\ UNCHANGED <<pokemonData, error, hasMore, page, observer, view,
                   rLoading, rHasMore, rPage>>

\* React commits a render of the current hook state: the view, the ref
\* callbacks of the last card (old one with null, new one with the node) and
\* the effect when fetchPokemon changed.
Render ==
    /\ ~effectPending
    /\ \/ ComponentRender(loading, error, pokemonData) # view
       \/ loading # rLoading
       \/ hasMore # rHasMore
       \/ page # rPage
    /\ LET newView  == ComponentRender(loading, error, pokemonData)
           oldNode  == LastCard(view)
           newNode  == LastCard(newView)
           reattach == oldNode # newNode \/ loading # rLoading \/ hasMore # rHasMore
           detached == IF reattach /\ oldNode # 0
                       THEN RefCallback(rLoading, rHasMore, 0, observer)
                       ELSE observer
           attached == IF reattach /\ newNode # 0
                       THEN RefCallback(loading, hasMore, newNode, detached)
                       ELSE detached
       IN  /\ view' = newView
           /\ observer' = attached
    /\ rLoading' = loading
    /\ rHasMore' = hasMore
    /\ rPage' = page
    /\ effectPending' = (page # rPage)
    /\ lastEvent' = Event("render")
    /\ UNCHANGED <<pokemonData, loading, error, hasMore, page, inflight>>

\* The IntersectionObserver callback (page.tsx 298-303)
Intersect(isIntersecting) ==
    /\ observer.live
    /\ observer.target # 0
    /\ observer.target \in {view.cards[i] : i \in 1..Len(view.cards)}
    /\ page < MaxPage
    /\ page' = IF isIntersecting /\ observer.hasMore THEN page + 1 ELSE page
    /\ lastEvent' = Event("intersect")
    /\ UNCHANGED <<pokemonData, loading, error, hasMore, observer, view,
                   rLoading, rHasMore, rPage, effectPending, inflight>>

\* catch (err) (page.tsx 280-283)
Catch ==
    /\ error' = FetchError
    /\ loading' = FALSE
    /\ UNCHANGED <<pokemonData, hasMore>>

\* The list request or response.json() rejects (page.tsx 231-234)
ListRejected(r) ==
    /\ r \in inflight
    /\ inflight' = inflight \ {r}
    /\ Catch
    /\ lastEvent' = Event("listRejected")
    /\ UNCHANGED <<page, observer, view, rLoading, rHasMore, rPage, effectPending>>

\* The list arrives and the call runs to its end (page.tsx 235-283)
Settle(r, outcomes) ==
    /\ r \in inflight
    /\ inflight' = inflight \ {r}
    /\ IF Len(outcomes) = 0
       THEN /\ hasMore' = FALSE
            /\ lastEvent' = Event("emptyPage")
            /\ UNCHANGED <<pokemonData, loading, error>>
       ELSE LET pokemonDetails == PromiseAll(outcomes)
            IN  IF pokemonDetails = <<Rejected>>
                THEN /\ Catch
                     /\ lastEvent' = Event("itemRejected")
                ELSE /\ pokemonData' = Merge(pokemonData, pokemonDetails)
                     /\ loading' = FALSE
                     /\ lastEvent' =
                          [op |-> IF AnyRejected(outcomes) THEN "itemRejected" ELSE "page",
                           collided |-> \/ Ids(pokemonData) \cap Ids(outcomes) # {}
                                        \/ Cardinality(Ids(outcomes)) < Len(outcomes),
                           unsorted |-> SortById(outcomes) # outcomes,
                           incomingKept |-> IncomingKept(outcomes, pokemonData')]
                     /\ UNCHANGED <<error, hasMore>>
    /\ UNCHANGED <<page, observer, view, rLoading, rHasMore, rPage, effectPending>>

----------------------------------------------------------------------------
\* The setPokemonData updater applied to a store and a page, once and again

\* The lists pokemonData can hold: results of the updater
Stores == {Merge(<<>>, items) : items \in SeqsUpTo(Pokemon, MaxId)}

Pages == SeqsUpTo(Pokemon, MaxPageLen) \ {<<>>}

InitMerge ==
    /\ mPc = "start"
    /\ mStore \in Stores
    /\ mIncoming \in Pages
    /\ mOnce = <<>>
    /\ mTwice = <<>>

IdleMerge ==
    /\ mPc = "idle"
    /\ mStore = <<>>
    /\ mIncoming = <<>>
    /\ mOnce = <<>>
    /\ mTwice = <<>>

MergeOnce ==
    /\ mPc = "start"
    /\ mOnce' = Merge(mStore, mIncoming)
    /\ mPc' = "once"
    /\ UNCHANGED <<mStore, mIncoming, mTwice>>

MergeTwice ==
    /\ mPc = "once"
    /\ mTwice' = Merge(mOnce, mIncoming)
    /\ mPc' = "twice"
    /\ UNCHANGED <<mStore, mIncoming, mOnce>>

----------------------------------------------------------------------------
\* PokemonCard: handleMoveClick (page.tsx 413-452)

MaxClicks == 3      \* handleMoveClick calls in one run
MaxTicks  == 8      \* how long the clock runs, in quanta

EffectDuration == 2000
Quantum == EffectDuration \div 4    \* the clock advances in steps of this

moveTypeEffects ==
    [normal |-> "rgbShift", fire |-> "duotone", water |-> "sinewave",
     electric |-> "rgbGlitch", grass |-> "hueShift", ice |-> "shine",
     fighting |-> "spring", poison |-> "slitScanTransition",
     ground |-> "halftone", flying |-> "warpTransition",
     psychic |-> "rainbow", bug |-> "pixelate", rock |-> "tritone",
     ghost |-> "glitch", dragon |-> "rgbShift", dark |-> "uvGradient",
     steel |-> "focusTransition", fairy |-> "pixelateTransition"]

\* moveTypeEffects[move.type] || "glitch"
EffectOf(type) ==
    IF type \in DOMAIN moveTypeEffects THEN moveTypeEffects[type] ELSE "glitch"

\* move.type of the buttons clicked; "shadow" is no key of moveTypeEffects
MoveTypes == {"fire", "water", "shadow"}

NoEffect == "null"
NoClick == [at |-> -1, type |-> "none"]

InitCard ==
    /\ activeEffect = NoEffect
    /\ timers = {}
    /\ nextTimer = 1
    /\ now = 0
    /\ lastClick = NoClick

Due(t) == t.due <= now

HandleMoveClick(type) ==
    /\ nextTimer <= MaxClicks
    /\ activeEffect' = EffectOf(type)
    /\ timers' = timers \cup {[id |-> nextTimer, due |-> now + EffectDuration]}
    /\ nextTimer' = nextTimer + 1
    /\ lastClick' = [at |-> now, type |-> type]
    /\ UNCHANGED now

\* () => setActiveEffect(null), run by the timer that is due first
TimerFires(t) ==
    /\ t \in timers
    /\ Due(t)
    /\ \A u \in timers : u.due > t.due \/ (u.due = t.due /\ u.id >= t.id)
    /\ activeEffect' = NoEffect
    /\ timers' = timers \ {t}
    /\ UNCHANGED <<nextTimer, now, lastClick>>

Tick ==
    /\ now < MaxTicks * Quantum
    /\ \A t \in timers : ~Due(t)
    /\ now' = now + Quantum
    /\ UNCHANGED <<activeEffect, timers, nextTimer, lastClick>>

\* What the card shows in place of the image (page.tsx 519-531)
CardImage == IF activeEffect # NoEffect THEN [vfx |-> TRUE, shader |-> activeEffect]
             ELSE [vfx |-> FALSE, shader |-> NoEffect]

----------------------------------------------------------------------------
\* Type modal: fetchTypeDetails, handleTypeClick, TypeModal (page.tsx 83-133, 309-347)

MaxTypeRequests == 2    \* handleTypeClick calls awaiting their response

RelationLists == {<<>>, <<"fire">>, <<"grass", "ice">>}

\* data.damage_relations of the type endpoint, names already picked out
ApiTypes ==
    [name : {"water"},
     double_damage_from : RelationLists, double_damage_to : RelationLists,
     half_damage_from : RelationLists, half_damage_to : RelationLists,
     no_damage_from : RelationLists, no_damage_to : RelationLists]

NoType == [name |-> "null"]

\* The object fetchTypeDetails returns (page.tsx 313-335)
FetchTypeDetails(data) ==
    [name |-> data.name,
     damageRelations |->
        [doubleDamageFrom |-> data.double_damage_from,
         doubleDamageTo   |-> data.double_damage_to,
         halfDamageFrom   |-> data.half_damage_from,
         halfDamageTo     |-> data.half_damage_to,
         noDamageFrom     |-> data.no_damage_from,
         noDamageTo       |-> data.no_damage_to]]

RECURSIVE Join(_)
\* names.join(", ")
Join(names) ==
    IF names = <<>> THEN ""
    ELSE IF Len(names) = 1 THEN names[1]
    ELSE names[1] \o ", " \o Join(Tail(names))

\* text || "None"
OrNone(text) == IF text = "" THEN "None" ELSE text

Row(label, relation, type) ==
    [label |-> label, relation |-> relation,
     text |-> OrNone(Join(type.damageRelations[relation]))]

\* The rows TypeModal renders; <<>> when it returns null (page.tsx 90-123)
TypeModal(type) ==
    IF type = NoType THEN <<>>
    ELSE <<Row("Weaknesses:", "doubleDamageFrom", type),
           Row("Strengths:", "doubleDamageTo", type),
           Row("Resistances:", "halfDamageFrom", type),
           Row("Not very effective against:", "halfDamageTo", type)>>

InitModal ==
    /\ selectedType = NoType
    /\ typeRequests = 0

\* A type badge is clicked: handleTypeClick up to its await (page.tsx 342-343)
HandleTypeClick ==
    /\ typeRequests < MaxTypeRequests
    /\ typeRequests' = typeRequests + 1
    /\ UNCHANGED selectedType

\* fetchTypeDetails resolves and handleTypeClick stores it (page.tsx 344-346)
TypeArrives(data) ==
    /\ typeRequests > 0
    /\ typeRequests' = typeRequests - 1
    /\ selectedType' = FetchTypeDetails(data)

\* fetchTypeDetails catches and returns null (page.tsx 336-339)
TypeFails ==
    /\ typeRequests > 0
    /\ typeRequests' = typeRequests - 1
    /\ UNCHANGED selectedType

\* onClose={() => setSelectedType(null)} (page.tsx 407)
CloseModal ==
    /\ selectedType # NoType
    /\ selectedType' = NoType
    /\ UNCHANGED typeRequests

----------------------------------------------------------------------------
\* Specifications

Init == InitPage /\ IdleMerge /\ InitCard /\ InitModal

Next ==
    \/ RunEffect /\ UNCHANGED pageOnly
    \/ Render /\ UNCHANGED pageOnly
    \/ \E isIntersecting \in BOOLEAN : Intersect(isIntersecting) /\ UNCHANGED pageOnly
    \/ \E r \in inflight : ListRejected(r) /\ UNCHANGED pageOnly
    \/ \E r \in inflight, outcomes \in PageOutcomes : Settle(r, outcomes) /\ UNCHANGED pageOnly

Spec == Init /\ [][Next]_vars

InitM == InitPage /\ InitMerge /\ InitCard /\ InitModal

NextM ==
    \/ MergeOnce /\ UNCHANGED mergeOnly
    \/ MergeTwice /\ UNCHANGED mergeOnly

SpecMerge == InitM /\ [][NextM]_vars

NextC ==
    \/ \E type \in MoveTypes : HandleMoveClick(type) /\ UNCHANGED cardOnly
    \/ \E t \in timers : TimerFires(t) /\ UNCHANGED cardOnly
    \/ Tick /\ UNCHANGED cardOnly

SpecCard == Init /\ [][NextC]_vars

NextT ==
    \/ HandleTypeClick /\ UNCHANGED modalOnly
    \/ \E data \in ApiTypes : TypeArrives(data) /\ UNCHANGED modalOnly
    \/ TypeFails /\ UNCHANGED modalOnly
    \/ CloseModal /\ UNCHANGED modalOnly

SpecModal == Init /\ [][NextT]_vars

----------------------------------------------------------------------------
\* Properties of the pagination loop (checked under Spec)

NoDuplicateIds(items) ==
    \A i, j \in 1..Len(items) : i # j => items[i].id # items[j].id

\* C1: pokemonData never holds two entries with the same id, whatever pages
\* were merged into it, and after a page is merged every id of the page is
\* stored with the page's entity (the incoming one replaced the stored one).
C1_NoDuplicateIds ==
    /\ NoDuplicateIds(pokemonData)
    /\ lastEvent.op = "page" => lastEvent.incomingKept

\* A page that repeated an id (stored already, or twice in the page) was merged
C1_Witness ==
    /\ lastEvent.op = "page"
    /\ lastEvent.collided
    /\ lastEvent.incomingKept
    /\ Len(pokemonData) >= 2

\* C2: at most one call of fetchPokemon is in flight at any time.
C2_OneFetchInFlight == Cardinality(inflight) <= 1

C4_NoFetchAfterEmptyPage ==
    [][~hasMore => page' = page /\ inflight' \subseteq inflight]_vars

\* C5: while a fetch of a page after the first is outstanding, the store holds
\* entities and the render is up to date, the view shows a loading indicator
\* and the cards of the store.
C5_CardsStayWhileLoadingMore ==
    (/\ \E r \in inflight : r.page > 1
     /\ pokemonData # <<>>
     /\ loading
     /\ view = ComponentRender(loading, error, pokemonData))
    => /\ view.screen = "loading" \/ view.more
       /\ view.cards = CardKeys(pokemonData)

\* C8: pokemonData is in ascending id order.
C8_SortedById ==
    \A i, j \in 1..Len(pokemonData) : i < j => pokemonData[i].id <= pokemonData[j].id

\* A page not in ascending id order was merged
C8_Witness ==
    /\ lastEvent.op = "page"
    /\ lastEvent.unsorted
    /\ Len(pokemonData) >= 2

\* C10: loading is true only while a call of fetchPokemon is outstanding.
C10_LoadingOnlyWhileFetching == loading => inflight # {}

----------------------------------------------------------------------------
\* Property of the updater (checked under SpecMerge)

\* C9: merging a page into the store a second time changes nothing.
C9_MergeIdempotent == mPc = "twice" => mTwice = mOnce

\* The page was merged twice into a store it shares an id with
C9_Witness ==
    /\ mPc = "twice"
    /\ Ids(mStore) \cap Ids(mIncoming) # {}
    /\ Len(mIncoming) >= 2
    /\ mOnce # mStore

----------------------------------------------------------------------------
\* Property of the card (checked under SpecCard)

\* C6: from a click on a move until EffectDuration later the card shows the
\* effect of the latest click, and after that, once the timers that are due
\* have run, the static image.
C6_EffectLastsFromLatestClick ==
    lastClick # NoClick =>
        /\ now < lastClick.at + EffectDuration
              => CardImage = [vfx |-> TRUE, shader |-> EffectOf(lastClick.type)]
        /\ (now >= lastClick.at + EffectDuration /\ \A t \in timers : ~Due(t))
              => CardImage.vfx = FALSE

----------------------------------------------------------------------------
\* Property of the type modal (checked under SpecModal)

RelationNames == {"doubleDamageFrom", "doubleDamageTo", "halfDamageFrom",
                  "halfDamageTo", "noDamageFrom", "noDamageTo"}

\* C7: an open modal has a row for each of the six relation lists, showing
\* the names joined by ", " or "None" for an empty list.
C7_SixRelationRows ==
    selectedType # NoType =>
        \A relation \in RelationNames :
            \E i \in 1..Len(TypeModal(selectedType)) :
                LET row   == TypeModal(selectedType)[i]
                    names == selectedType.damageRelations[relation]
                IN  /\ row.relation = relation
                    /\ names = <<>> => row.text = "None"
                    /\ names # <<>> => row.text = Join(names)

====
